---- MODULE Spec2Model ----
(***************************************************************************)
(* Model of the Smoke Specialist dashboard: the /visualization page        *)
(* callback (src/pages/visualization.py) and the record helpers it uses    *)
(* (src/utils.py).                                                         *)
(*                                                                         *)
(* Conventions.                                                            *)
(*  - A Python value that may be None is a sequence of length <= 1:        *)
(*    None is << >>, a present value v is << v >>.                         *)
(*  - A Python str is a sequence of text atoms; str + str is \o, '' is     *)
(*    << >>.                                                               *)
(*  - The records read from the health-record server are fhirclient model  *)
(*    objects: every property of an element exists as an attribute and is  *)
(*    None when the element is absent from the resource, so hasattr(o, a)  *)
(*    is false only when o itself is None.                                 *)
(*  - A timestamp string is what strftime('%Y-%m-%dT%H:%M:%SZ') yields: a  *)
(*    fixed-width, zero-padded digit string; here two digits of an hour    *)
(*    count.  Strings are compared as Python compares str: position by     *)
(*    position.                                                            *)
(***************************************************************************)
EXTENDS Integers, Sequences, FiniteSets, TLC

VARIABLES
    pc,             \* position of handle_callback / of the helper under check
    patient_future, \* state of executor.submit(Patient.read ...)
    conditions_future, \* state of executor.submit(Condition.where ...)
    server,         \* what the health-record server holds for the patient
    read_order,     \* the reads in the order in which their workers ended
    patient,        \* the Patient resource (None until read)
    conditions,     \* the list of Condition resources
    demographics,   \* result of get_patient_demographics: (name, sex, birthday, address)
    current_health_conditions, \* result of the conditions step
    geocoded,       \* whether gmaps.geocode returned coordinates
    ti,             \* index in the endpoint loop of line 98
    data,           \* request body of the running endpoint (its pageToken)
    aqi_results,    \* the dict of line 95, in insertion order
    requests,       \* per endpoint: the page tokens sent, one per requests.post
    responses,      \* per endpoint: the nextPageToken of each response received
    calls,          \* the endpoints called, one entry per requests.post, in order
    emitted,        \* per endpoint: its result set, the readings its responses carried
    skipped,        \* records of a response left out of aqi_results without an error
    incomplete,     \* the endpoints a record without 'dateTime' or 'indexes' came from
    current_dt,     \* datetime.now formatted by strftime ('' until line 96)
    env_error,      \* what made an environmental call fail ("" if none)
    figure,         \* the two Scatter traces (None until built)
    prompt_readings, \* the reading set handed to generate_prompt (None until then)
    outputs,        \* the callback's five outputs (set of output ids that are set)
    failed_step,    \* the step that aborted the request ("" if none)
    health_conditions_list \* result of generate_clinical_details_table's condition loop

vars == << pc, patient_future, conditions_future, server, read_order, patient, conditions,
           demographics, current_health_conditions, geocoded, ti, data,
           aqi_results, requests, responses, calls, emitted, skipped, incomplete,
           current_dt, env_error, figure, prompt_readings, outputs, failed_step,
           health_conditions_list >>

(***************************************************************************)
(* Bounds of the model.                                                    *)
(***************************************************************************)
MaxPages == 2          \* pages one paginated endpoint serves at most
MaxNames == 2          \* name entries of a patient at most
MaxConditions == 2     \* condition records handed to the table builder at most
PageLengths == {0, 1}  \* numbers of records one page of a paginated endpoint may hold

(***************************************************************************)
(* Python values.                                                          *)
(***************************************************************************)
None == << >>
Some(v) == << v >>
Val(o) == o[1]

\* hasattr(obj, attr) on a fhirclient element (or on None)
HasAttr(obj, attr) == obj # None /\ attr \in DOMAIN Val(obj)

\* bool(x) of an optional str: None and '' are falsy
Truthy(o) == o # None /\ Val(o) # << >>

\* sep.join(parts), parts a sequence of str
RECURSIVE Join(_, _)
Join(sep, parts) ==
    IF Len(parts) = 0 THEN << >>
    ELSE IF Len(parts) = 1 THEN parts[1]
    ELSE parts[1] \o sep \o Join(sep, Tail(parts))

\* filter(None, items), items a sequence of optional str: drops None and ''
RECURSIVE FilterNone(_)
FilterNone(items) ==
    IF Len(items) = 0 THEN << >>
    ELSE IF Truthy(Head(items)) THEN << Val(Head(items)) >> \o FilterNone(Tail(items))
    ELSE FilterNone(Tail(items))

(***************************************************************************)
(* Timestamps.                                                             *)
(***************************************************************************)
Hours == 9 .. 11       \* the hours the environmental service reports on
NowHours == {10, 11}   \* datetime.now(timezone.utc), as an hour count

\* strftime: two zero-padded digits
strftime(h) == << h \div 10, h % 10 >>

\* Python's a <= b on two str
StrLeq(a, b) ==
    \/ a = b
    \/ \E i \in 1 .. Len(a) :
          /\ i <= Len(b)
          /\ \A j \in 1 .. (i - 1) : a[j] = b[j]
          /\ a[i] < b[i]
    \/ /\ Len(a) < Len(b)
       /\ \A j \in 1 .. Len(a) : a[j] = b[j]

StrGeq(a, b) == StrLeq(b, a)

(***************************************************************************)
(* utils.get_patient_demographics                                          *)
(***************************************************************************)
StrResult(s) == [kind |-> "str", str |-> s, obj |-> None]
ObjResult(o) == [kind |-> "HumanName", str |-> << >>, obj |-> Some(o)]
NoneResult == [kind |-> "None", str |-> << >>, obj |-> None]

\* `"official" in name.use`: substring test; of the FHIR name-use codes only
\* "official" contains it
OfficialIn(use) == use = "official"

\* the expression of lines 268-269 (and 273-274) on one name entry:
\* " ".join(given) is evaluated first, then text is preferred
NameTextErr(entry) ==
    \/ entry.given = None
    \/ entry.text = None /\ entry.family = None

NameText(entry) ==
    IF entry.text # None THEN Val(entry.text)
    ELSE Join(<< " " >>, Val(entry.given)) \o << " " >> \o Val(entry.family)

\* the for loop of lines 265-270 from entry i on; `name` is the loop variable,
\* so it is left bound to the last entry visited when no entry is official
RECURSIVE NameLoop(_, _)
NameLoop(names, i) ==
    IF i > Len(names)
    THEN [err |-> FALSE,
          name |-> IF Len(names) = 0 THEN NoneResult ELSE ObjResult(names[Len(names)])]
    ELSE IF names[i].use = None
    THEN [err |-> TRUE, name |-> NoneResult]
    ELSE IF OfficialIn(Val(names[i].use))
    THEN IF NameTextErr(names[i])
         THEN [err |-> TRUE, name |-> NoneResult]
         ELSE [err |-> FALSE, name |-> StrResult(NameText(names[i]))]
    ELSE NameLoop(names, i + 1)

\* `not name`
NameFalsy(r) == r.kind = "None" \/ (r.kind = "str" /\ r.str = << >>)

\* lines 264-274
SelectName(p) ==
    IF p.name = None THEN [err |-> TRUE, name |-> NoneResult]
    ELSE LET names == Val(p.name)
             loop == NameLoop(names, 1)
         IN IF loop.err THEN loop
            ELSE IF NameFalsy(loop.name)
            THEN IF Len(names) = 0 \/ NameTextErr(names[1])
                 THEN [err |-> TRUE, name |-> NoneResult]
                 ELSE [err |-> FALSE, name |-> StrResult(NameText(names[1]))]
            ELSE loop

\* lines 298-304: every field is read; a missing `line` is None, not []
AddressJoinErr(a) == a.line = None

AddressJoin(a) ==
    Join(<< ", " >>,
         FilterNone(<< Some(Join(<< ", " >>, Val(a.line))), a.city, a.district,
                       a.state, a.postalCode, a.country >>))

\* lines 292-306 and the use of `address` at line 340
SelectAddress(p) ==
    IF p.address = None THEN [err |-> TRUE, address |-> << >>]
    ELSE LET addrs == Val(p.address) IN
         IF Len(addrs) = 1
         THEN IF Truthy(addrs[1].text)
              THEN [err |-> FALSE, address |-> Val(addrs[1].text)]
              ELSE IF AddressJoinErr(addrs[1])
              THEN [err |-> TRUE, address |-> << >>]
              ELSE [err |-> FALSE, address |-> AddressJoin(addrs[1])]
         ELSE [err |-> TRUE, address |-> << >>]

get_patient_demographics(p) ==
    LET n == SelectName(p)
        a == SelectAddress(p)
    IN IF n.err \/ a.err
       THEN [err |-> TRUE, name |-> NoneResult, sex |-> << >>, birthday |-> << >>,
             address |-> << >>]
       ELSE [err |-> FALSE,
             name |-> n.name,
             sex |-> IF Truthy(p.gender) THEN Val(p.gender) ELSE << "Unknown" >>,
             birthday |-> IF p.birthDate # None THEN Val(p.birthDate) ELSE << "Unknown" >>,
             address |-> a.address]

NoDemographics ==
    [err |-> FALSE, name |-> NoneResult, sex |-> << >>, birthday |-> << >>,
     address |-> << >>]

(***************************************************************************)
(* Patient resources the health-record server may return.                  *)
(***************************************************************************)
HumanNames ==
    [use : {None, Some("official"), Some("usual")},
     text : {None, Some(<< "Dr. A. Lee" >>)},
     given : {None, Some(<< << "Ann" >> >>), Some(<< << "Ann" >>, << "Bea" >> >>)},
     family : {Some(<< "Lee" >>), Some(<< "Kim" >>)}]

SeqsUpTo(S, n) == UNION {[1 .. k -> S] : k \in 0 .. n}

NameLists == {None} \cup {Some(l) : l \in SeqsUpTo(HumanNames, MaxNames)}

Addresses ==
    [text : {None, Some(<< "123 Main St, Springfield" >>)},
     line : {None, Some(<< << "123 Main St" >> >>),
             Some(<< << "123 Main St" >>, << "Apt 4" >> >>)},
     city : {None, Some(<< "Springfield" >>)},
     district : {None},
     state : {None, Some(<< "IL" >>)},
     postalCode : {None, Some(<< "62701" >>)},
     country : {None}]

TextAddress ==
    [text |-> Some(<< "123 Main St, Springfield" >>), line |-> None, city |-> None,
     district |-> None, state |-> None, postalCode |-> None, country |-> None]

FieldAddress ==
    [text |-> None, line |-> Some(<< << "123 Main St" >> >>),
     city |-> Some(<< "Springfield" >>), district |-> None,
     state |-> Some(<< "IL" >>), postalCode |-> None, country |-> None]

AddressLists ==
    {None, Some(<< >>), Some(<< TextAddress, FieldAddress >>)}
        \cup {Some(<< a >>) : a \in Addresses}

Patients ==
    [name : NameLists,
     gender : {None, Some(<< "female" >>)},
     birthDate : {Some(<< "1980-01-01" >>)},
     address : AddressLists]

OfficialName ==
    [use |-> Some("official"), text |-> None, given |-> Some(<< << "Ann" >> >>),
     family |-> Some(<< "Lee" >>)]

\* the patients the page callback is run on
CallbackPatients ==
    [name : {Some(<< OfficialName >>), Some(<< >>)},
     gender : {Some(<< "female" >>)},
     birthDate : {Some(<< "1980-01-01" >>)},
     address : {None, Some(<< >>), Some(<< FieldAddress >>),
                Some(<< TextAddress, FieldAddress >>)}]
        \cup {[name |-> Some(<< OfficialName >>), gender |-> None, birthDate |-> None,
               address |-> Some(<< TextAddress >>)]}

(***************************************************************************)
(* The environmental-index service: what one requests.post may bring back. *)
(***************************************************************************)
\* the endpoint loop in the order past, present, future
TimeOrder_chronological == << "history", "currentConditions", "forecast" >>

\* line 98: the order in which the loop visits the endpoints
TimeOrder == << "forecast", "currentConditions", "history" >>

Endpoints == {"forecast", "currentConditions", "history"}

AqiValues == {1, 2}

\* one element of hoursInfo / hourlyForecasts, or the currentConditions body:
\* 'dateTime' and 'indexes' may each be missing
Readings ==
    [dateTime : {Some(strftime(h)) : h \in Hours}, aqi : {Some(v) : v \in AqiValues}]

Incomplete ==
    {[dateTime |-> None, aqi |-> Some(1)], [dateTime |-> Some(strftime(10)), aqi |-> None]}

Records == Readings \cup Incomplete

Complete(r) == r.dateTime # None /\ r.aqi # None

\* the records one page may hold
PageContents == UNION {[1 .. k -> Records] : k \in PageLengths}

\* the continuation token of page n is the cursor n
Tokens(n) == IF n < MaxPages THEN {None, Some(n)} ELSE {None}

\* the responses page n of a paginated endpoint may be: requests.post raises
\* ("transport"), the body is not the expected JSON object ("malformed"), or
\* it holds a list of records and possibly a nextPageToken
PageResponses(n) ==
    {[kind |-> "transport", records |-> << >>, nextPageToken |-> None],
     [kind |-> "malformed", records |-> << >>, nextPageToken |-> None]}
    \cup [kind : {"ok"}, records : PageContents, nextPageToken : Tokens(n)]

CurrentResponses ==
    {[kind |-> "transport", records |-> << >>, nextPageToken |-> None],
     [kind |-> "malformed", records |-> << >>, nextPageToken |-> None]}
    \cup [kind : {"ok"}, records : {<< r >> : r \in Records}, nextPageToken : {None}]

(***************************************************************************)
(* aqi_results: a dict, kept as its items in insertion order.              *)
(***************************************************************************)
Keys(d) == {d[i].k : i \in 1 .. Len(d)}

\* DictUpdate as dict.setdefault: a timestamp already held keeps its value
DictUpdate_keep(d, key, value) ==
    IF \E i \in 1 .. Len(d) : d[i].k = key THEN d
    ELSE Append(d, [k |-> key, v |-> value])

\* DictUpdate kept as a list of pairs: a reading of a known timestamp is
\* added again instead of replacing the one held
DictUpdate_append(d, key, value) == Append(d, [k |-> key, v |-> value])

\* d.update({key: value}): an existing key keeps its place and takes the value
DictUpdate(d, key, value) ==
    IF key \in Keys(d)
    THEN [i \in 1 .. Len(d) |-> IF d[i].k = key THEN [k |-> key, v |-> value] ELSE d[i]]
    ELSE Append(d, [k |-> key, v |-> value])

\* lines 112-113: a record without 'dateTime' or 'indexes' is passed over
RECURSIVE HistoryRecords(_, _)
HistoryRecords(d, recs) ==
    IF Len(recs) = 0 THEN [err |-> FALSE, d |-> d, skipped |-> 0]
    ELSE IF Complete(Head(recs))
    THEN HistoryRecords(DictUpdate(d, Val(Head(recs).dateTime), Val(Head(recs).aqi)),
                        Tail(recs))
    ELSE LET rest == HistoryRecords(d, Tail(recs))
         IN [rest EXCEPT !.skipped = @ + 1]

\* ForecastRecords with the guard of the history loop: an incomplete record
\* is passed over
ForecastRecords_guarded(d, recs) == HistoryRecords(d, recs)

\* lines 141-142 (and 126): a record without 'dateTime' or 'indexes' raises KeyError
RECURSIVE ForecastRecords(_, _)
ForecastRecords(d, recs) ==
    IF Len(recs) = 0 THEN [err |-> FALSE, d |-> d, skipped |-> 0]
    ELSE IF Complete(Head(recs))
    THEN ForecastRecords(DictUpdate(d, Val(Head(recs).dateTime), Val(Head(recs).aqi)),
                         Tail(recs))
    ELSE [err |-> TRUE, d |-> d, skipped |-> 0]

\* lines 114-117 / 143-146: the loop goes on when the response has a token
HasNextPage(resp) == resp.nextPageToken # None

\* NextData with the token of the response dropped: every request of the
\* loop is sent without a pageToken
NextData_stale(d, resp) == d

\* line 115 / 144: data.update({'pageToken': ...})
NextData(d, resp) == [d EXCEPT !.pageToken = resp.nextPageToken]

NewData == [pageToken |-> None]

\* the complete readings of a response, as (dateTime, aqi) pairs
RECURSIVE ReadingsOf(_)
ReadingsOf(recs) ==
    IF Len(recs) = 0 THEN << >>
    ELSE IF Complete(Head(recs))
    THEN << [k |-> Val(Head(recs).dateTime), v |-> Val(Head(recs).aqi)] >>
             \o ReadingsOf(Tail(recs))
    ELSE ReadingsOf(Tail(recs))

\* the result set of an endpoint: its readings keyed by timestamp, a later
\* reading of the same endpoint replacing an earlier one
RECURSIVE Collect(_, _)
Collect(d, readings) ==
    IF Len(readings) = 0 THEN d
    ELSE Collect(IF Head(readings).k \in Keys(d)
                 THEN [i \in 1 .. Len(d) |->
                          IF d[i].k = Head(readings).k THEN Head(readings) ELSE d[i]]
                 ELSE Append(d, Head(readings)),
                 Tail(readings))

HasIncomplete(recs) == \E i \in 1 .. Len(recs) : ~Complete(recs[i])

(***************************************************************************)
(* The Condition resources of the callback and its conditions step.        *)
(***************************************************************************)
Coding(display, code) == [display |-> display, code |-> code]

Concept(text, coding) == [text |-> text, coding |-> coding]

AsthmaCondition ==
    [code |-> Some(Concept(Some(<< "Asthma" >>), None)),
     clinicalStatus |-> Some(Concept(None, Some(<< Coding(None, Some(<< "active" >>)) >>))),
     verificationStatus |-> None]

UnnamedCondition ==
    [code |-> None, clinicalStatus |-> None, verificationStatus |-> None]

CallbackConditions == {<< AsthmaCondition >>, << UnnamedCondition >>}

\* the name of one condition for the prompt: its text, else the display of
\* its first coding that has one
ConditionNameOf(c) ==
    IF c.code = None THEN None
    ELSE IF Val(c.code).text # None THEN Val(c.code).text
    ELSE IF Val(c.code).coding = None THEN None
    ELSE LET cs == Val(Val(c.code).coding)
             shown == {i \in 1 .. Len(cs) : cs[i].display # None}
         IN IF shown = {} THEN None
            ELSE cs[CHOOSE i \in shown : \A j \in shown : i <= j].display

\* utils.retrieve_current_health_conditions: the names of the conditions, or
\* an error when a condition has none
retrieve_current_health_conditions(conds) ==
    IF \E i \in 1 .. Len(conds) : ConditionNameOf(conds[i]) = None
    THEN [err |-> TRUE, names |-> << >>]
    ELSE [err |-> FALSE, names |-> [i \in 1 .. Len(conds) |-> Val(ConditionNameOf(conds[i]))]]

(***************************************************************************)
(* handle_callback                                                         *)
(***************************************************************************)
OutputIds == {"patient-details", "address", "map-iframe", "gemini-response", "aqi-graph"}

PerEndpoint(v) == [e \in Endpoints |-> v]

\* the locals of handle_callback before its first statement
Fresh ==
    /\ patient_future = "idle"
    /\ conditions_future = "idle"
    /\ read_order = << >>
    /\ demographics = NoDemographics
    /\ current_health_conditions = << >>
    /\ geocoded = FALSE
    /\ ti = 1
    /\ data = NewData
    /\ aqi_results = << >>
    /\ requests = PerEndpoint(<< >>)
    /\ responses = PerEndpoint(<< >>)
    /\ calls = << >>
    /\ emitted = PerEndpoint(<< >>)
    /\ skipped = 0
    /\ incomplete = {}
    /\ current_dt = << >>
    /\ env_error = ""
    /\ figure = None
    /\ prompt_readings = None
    /\ outputs = {}
    /\ failed_step = ""

\* what the two reads may find: a resource that cannot be read is None
Servers ==
    [patient : {None} \cup {Some(p) : p \in CallbackPatients},
     conditions : {None} \cup {Some(cs) : cs \in CallbackConditions}]

NoServer == [patient |-> None, conditions |-> None]

Init ==
    /\ pc = "submit"
    /\ Fresh
    /\ server \in Servers
    /\ patient = None
    /\ conditions = << >>
    /\ health_conditions_list = None

fetch_vars == << patient_future, conditions_future, server, read_order, patient,
                conditions >>
env_vars == << ti, data, aqi_results, requests, responses, calls, emitted, skipped,
              incomplete, env_error >>
render_vars == << figure, prompt_readings, outputs >>

\* Abort after the patient details were already put out
Abort_partial(how, step) ==
    /\ pc' = how
    /\ failed_step' = step
    /\ outputs' = outputs \cup {"patient-details"}

\* an exception leaves handle_callback: PreventUpdate, or any other one
Abort(how, step) ==
    /\ pc' = how
    /\ failed_step' = step
    /\ outputs' = outputs

\* lines 52-54: the patient read is submitted to the pool
Submit ==
    /\ pc = "submit"
    /\ patient_future' = "running"
    /\ pc' = "submit_conditions"
    /\ UNCHANGED << conditions_future, server, read_order, patient, conditions,
                    demographics, current_health_conditions, geocoded, env_vars,
                    current_dt, render_vars, failed_step, health_conditions_list >>

\* line 55: the condition search is submitted to the pool
SubmitConditions ==
    /\ pc = "submit_conditions"
    /\ conditions_future' = "running"
    /\ pc' = "result"
    /\ UNCHANGED << patient_future, server, read_order, patient, conditions,
                    demographics, current_health_conditions, geocoded, env_vars,
                    current_dt, render_vars, failed_step, health_conditions_list >>

\* line 54, in a worker: Patient.read returns the Patient or raises
PatientRead ==
    /\ patient_future = "running"
    /\ IF server.patient # None
       THEN /\ patient' = server.patient
            /\ patient_future' = "done"
       ELSE /\ patient_future' = "raised"
            /\ patient' = patient
    /\ read_order' = Append(read_order, "patient")
    /\ UNCHANGED << pc, conditions_future, server, conditions, demographics,
                    current_health_conditions, geocoded, env_vars, current_dt,
                    render_vars, failed_step, health_conditions_list >>

\* line 55, in a worker: the Condition search returns the list or raises
ConditionsRead ==
    /\ conditions_future = "running"
    /\ IF server.conditions # None
       THEN /\ conditions' = Val(server.conditions)
            /\ conditions_future' = "done"
       ELSE /\ conditions_future' = "raised"
            /\ conditions' = conditions
    /\ read_order' = Append(read_order, "conditions")
    /\ UNCHANGED << pc, patient_future, server, patient, demographics,
                    current_health_conditions, geocoded, env_vars, current_dt,
                    render_vars, failed_step, health_conditions_list >>

\* Result without the wait for the second worker
Result_nowait ==
    /\ pc = "result"
    /\ patient_future \in {"done", "raised"}
    /\ IF patient_future = "raised"
       THEN Abort("raised", "fetch")
       ELSE /\ pc' = "check_address"
            /\ UNCHANGED << failed_step, outputs >>
    /\ UNCHANGED << fetch_vars, demographics, current_health_conditions, geocoded,
                    env_vars, current_dt, figure, prompt_readings, health_conditions_list >>

\* lines 57-58 and the end of the `with` block, which waits for both workers
Result ==
    /\ pc = "result"
    /\ patient_future \in {"done", "raised"}
    /\ conditions_future \in {"done", "raised"}
    /\ IF patient_future = "raised" \/ conditions_future = "raised"
       THEN Abort("raised", "fetch")
       ELSE /\ pc' = "check_address"
            /\ UNCHANGED << failed_step, outputs >>
    /\ UNCHANGED << fetch_vars, demographics, current_health_conditions, geocoded,
                    env_vars, current_dt, figure, prompt_readings, health_conditions_list >>

\* lines 61-62: len(None) raises TypeError, an empty list raises PreventUpdate
CheckAddress ==
    /\ pc = "check_address"
    /\ IF Val(patient).address = None THEN Abort("raised", "address")
       ELSE IF Len(Val(Val(patient).address)) = 0 THEN Abort("prevent_update", "address")
       ELSE /\ pc' = "demographics"
            /\ UNCHANGED << failed_step, outputs >>
    /\ UNCHANGED << fetch_vars, demographics, current_health_conditions, geocoded,
                    env_vars, current_dt, figure, prompt_readings, health_conditions_list >>

\* lines 64-69
Demographics ==
    /\ pc = "demographics"
    /\ LET d == get_patient_demographics(Val(patient)) IN
         IF d.err
         THEN /\ Abort("prevent_update", "demographics")
              /\ demographics' = demographics
         ELSE /\ demographics' = d
              /\ pc' = "conditions"
              /\ UNCHANGED << failed_step, outputs >>
    /\ UNCHANGED << fetch_vars, current_health_conditions, geocoded, env_vars, current_dt,
                    figure, prompt_readings, health_conditions_list >>

\* lines 71-81
Conditions ==
    /\ pc = "conditions"
    /\ LET r == retrieve_current_health_conditions(conditions) IN
         IF r.err
         THEN /\ Abort("prevent_update", "conditions")
              /\ current_health_conditions' = current_health_conditions
         ELSE /\ current_health_conditions' = Join(<< ", " >>, r.names)
              /\ pc' = "geocode"
              /\ UNCHANGED << failed_step, outputs >>
    /\ UNCHANGED << fetch_vars, demographics, geocoded, env_vars, current_dt, figure,
                    prompt_readings, health_conditions_list >>

\* lines 84-97: the geocoding call raises, or finds no result (IndexError at
\* line 87), or yields coordinates
Geocode ==
    /\ pc = "geocode"
    /\ \E found \in BOOLEAN :
         IF found
         THEN /\ geocoded' = TRUE
              /\ \E h \in NowHours : current_dt' = strftime(h)
              /\ pc' = "aqi"
              /\ UNCHANGED << failed_step, outputs >>
         ELSE /\ Abort("raised", "geocode")
              /\ geocoded' = geocoded
              /\ current_dt' = current_dt
    /\ UNCHANGED << fetch_vars, demographics, current_health_conditions, env_vars,
                    figure, prompt_readings, health_conditions_list >>

\* the endpoint loop of line 98 moves on to its next element, or ends
NextEndpoint ==
    /\ ti' = ti + 1
    /\ data' = NewData
    /\ pc' = IF ti = Len(TimeOrder) THEN "figure" ELSE "aqi"

EnvAbort(why) ==
    /\ Abort("raised", "aqi")
    /\ env_error' = why
    /\ UNCHANGED << ti, data >>

\* lines 101-117: one pass of the pagination loop
HistoryPage ==
    /\ pc = "aqi"
    /\ TimeOrder[ti] = "history"
    /\ \E resp \in PageResponses(Len(requests["history"]) + 1) :
         /\ requests' = [requests EXCEPT !["history"] = Append(@, data.pageToken)]
         /\ calls' = Append(calls, "history")
         /\ IF resp.kind # "ok"
            THEN /\ EnvAbort(resp.kind)
                 /\ UNCHANGED << responses, emitted, aqi_results, skipped, incomplete >>
            ELSE LET m == HistoryRecords(aqi_results, resp.records) IN
                 /\ responses' = [responses EXCEPT !["history"] = Append(@, resp.nextPageToken)]
                 /\ emitted' = [emitted EXCEPT !["history"] = Collect(@, ReadingsOf(resp.records))]
                 /\ incomplete' = IF HasIncomplete(resp.records)
                                  THEN incomplete \cup {"history"} ELSE incomplete
                 /\ aqi_results' = m.d
                 /\ skipped' = skipped + m.skipped
                 /\ IF m.err THEN EnvAbort("missing_field")
                    ELSE /\ UNCHANGED << env_error, failed_step, outputs >>
                         /\ IF HasNextPage(resp)
                            THEN /\ data' = NextData(data, resp)
                                 /\ UNCHANGED << pc, ti >>
                            ELSE NextEndpoint
    /\ UNCHANGED << fetch_vars, demographics, current_health_conditions, geocoded,
                    current_dt, figure, prompt_readings, health_conditions_list >>

\* lines 127-146: one pass of the pagination loop
ForecastPage ==
    /\ pc = "aqi"
    /\ TimeOrder[ti] = "forecast"
    /\ \E resp \in PageResponses(Len(requests["forecast"]) + 1) :
         /\ requests' = [requests EXCEPT !["forecast"] = Append(@, data.pageToken)]
         /\ calls' = Append(calls, "forecast")
         /\ IF resp.kind # "ok"
            THEN /\ EnvAbort(resp.kind)
                 /\ UNCHANGED << responses, emitted, aqi_results, skipped, incomplete >>
            ELSE LET m == ForecastRecords(aqi_results, resp.records) IN
                 /\ responses' = [responses EXCEPT !["forecast"] = Append(@, resp.nextPageToken)]
                 /\ emitted' = [emitted EXCEPT !["forecast"] = Collect(@, ReadingsOf(resp.records))]
                 /\ incomplete' = IF HasIncomplete(resp.records)
                                  THEN incomplete \cup {"forecast"} ELSE incomplete
                 /\ aqi_results' = m.d
                 /\ skipped' = skipped + m.skipped
                 /\ IF m.err THEN EnvAbort("missing_field")
                    ELSE /\ UNCHANGED << env_error, failed_step, outputs >>
                         /\ IF HasNextPage(resp)
                            THEN /\ data' = NextData(data, resp)
                                 /\ UNCHANGED << pc, ti >>
                            ELSE NextEndpoint
    /\ UNCHANGED << fetch_vars, demographics, current_health_conditions, geocoded,
                    current_dt, figure, prompt_readings, health_conditions_list >>

\* lines 118-126: one call, one reading
CurrentConditions ==
    /\ pc = "aqi"
    /\ TimeOrder[ti] = "currentConditions"
    /\ \E resp \in CurrentResponses :
         /\ requests' = [requests EXCEPT !["currentConditions"] = Append(@, data.pageToken)]
         /\ calls' = Append(calls, "currentConditions")
         /\ IF resp.kind # "ok"
            THEN /\ EnvAbort(resp.kind)
                 /\ UNCHANGED << responses, emitted, aqi_results, skipped, incomplete >>
            ELSE LET m == ForecastRecords(aqi_results, resp.records) IN
                 /\ responses' = [responses EXCEPT !["currentConditions"] =
                                      Append(@, resp.nextPageToken)]
                 /\ emitted' = [emitted EXCEPT !["currentConditions"] =
                                    Collect(@, ReadingsOf(resp.records))]
                 /\ incomplete' = IF HasIncomplete(resp.records)
                                  THEN incomplete \cup {"currentConditions"} ELSE incomplete
                 /\ aqi_results' = m.d
                 /\ skipped' = skipped
                 /\ IF m.err THEN EnvAbort("missing_field")
                    ELSE /\ UNCHANGED << env_error, failed_step, outputs >>
                         /\ NextEndpoint
    /\ UNCHANGED << fetch_vars, demographics, current_health_conditions, geocoded,
                    current_dt, figure, prompt_readings, health_conditions_list >>

\* ObservedTrace with `<` for `<=`: the reading at now is left out
RECURSIVE ObservedTrace_strict(_)
ObservedTrace_strict(d) ==
    IF Len(d) = 0 THEN << >>
    ELSE IF StrLeq(Head(d).k, current_dt) /\ Head(d).k # current_dt
    THEN << Head(d) >> \o ObservedTrace_strict(Tail(d))
    ELSE ObservedTrace_strict(Tail(d))

\* line 155-156: the items whose key is <= now, in the dict's order
RECURSIVE ObservedTrace(_)
ObservedTrace(d) ==
    IF Len(d) = 0 THEN << >>
    ELSE IF StrLeq(Head(d).k, current_dt) THEN << Head(d) >> \o ObservedTrace(Tail(d))
    ELSE ObservedTrace(Tail(d))

\* line 161-162: the items whose key is >= now, in the dict's order
RECURSIVE ForecastTrace(_)
ForecastTrace(d) ==
    IF Len(d) = 0 THEN << >>
    ELSE IF StrGeq(Head(d).k, current_dt) THEN << Head(d) >> \o ForecastTrace(Tail(d))
    ELSE ForecastTrace(Tail(d))

\* lines 147-178
BuildFigure ==
    /\ pc = "figure"
    /\ figure' = Some([observed |-> ObservedTrace(aqi_results),
                       forecast |-> ForecastTrace(aqi_results)])
    /\ pc' = "prompt"
    /\ UNCHANGED << fetch_vars, demographics, current_health_conditions, geocoded,
                    env_vars, current_dt, prompt_readings, outputs, failed_step,
                    health_conditions_list >>

\* utils.generate_prompt takes seven positional parameters (line 232)
GeneratePromptParams == 7

\* the arguments of the call at lines 184-190
PromptArgs ==
    << "gender", "birthDate", "all_health_conditions", "current_dt", "aqi_results" >>

\* a call binds only when it gives every parameter a value
generate_prompt(args) == [err |-> Len(args) # GeneratePromptParams]

\* lines 182-202: patient.birthDate.isostring raises on a missing birth date;
\* then the prompt is built, the generative-text service is called and the
\* five outputs are returned together
PromptAndReturn ==
    /\ pc = "prompt"
    /\ \E answered \in BOOLEAN :
         IF Val(patient).birthDate = None
         THEN /\ Abort("raised", "prompt")
              /\ prompt_readings' = prompt_readings
         ELSE /\ prompt_readings' = Some(aqi_results)
              /\ IF generate_prompt(PromptArgs).err THEN Abort("raised", "prompt")
                 ELSE IF ~answered THEN Abort("raised", "gemini")
                 ELSE /\ outputs' = OutputIds
                      /\ pc' = "returned"
                      /\ failed_step' = failed_step
    /\ UNCHANGED << fetch_vars, demographics, current_health_conditions, geocoded,
                    env_vars, current_dt, figure, health_conditions_list >>

Next ==
    \/ Submit
    \/ SubmitConditions
    \/ PatientRead
    \/ ConditionsRead
    \/ Result
    \/ CheckAddress
    \/ Demographics
    \/ Conditions
    \/ Geocode
    \/ ForecastPage
    \/ CurrentConditions
    \/ HistoryPage
    \/ BuildFigure
    \/ PromptAndReturn

Spec == Init /\ [][Next]_vars

(***************************************************************************)
(* utils.generate_clinical_details_table: the condition loop, lines 42-77  *)
(***************************************************************************)
\* lines 49-52: the display of the first coding that has the attribute
FirstDisplay(codings) ==
    LET having == {i \in 1 .. Len(codings) : HasAttr(Some(codings[i]), "display")}
    IN IF having = {} THEN Some(<< >>)
       ELSE codings[CHOOSE i \in having : \A j \in having : i <= j].display

\* lines 44-54; the name is '' (Some(<< >>)), None or a str
ConditionName(c) ==
    IF HasAttr(Some(c), "code")
    THEN IF HasAttr(c.code, "text")
         THEN [err |-> FALSE, name |-> Val(c.code).text]
         ELSE IF HasAttr(c.code, "coding")
         THEN [err |-> FALSE, name |-> FirstDisplay(Val(Val(c.code).coding))]
         ELSE [err |-> TRUE, name |-> None]
    ELSE [err |-> FALSE, name |-> Some(<< >>)]

\* lines 56-61 (63-68) on the status element `field` of a condition: the two
\* tests are both `if`, so a coding is read after a text and replaces it;
\* subscripting a missing coding list raises TypeError
ResolveStatus(c, field) ==
    LET st == c[field]
        fromText == IF HasAttr(st, "text") THEN Val(st).text ELSE Some(<< "Unknown" >>)
    IN IF ~HasAttr(Some(c), field)
       THEN [err |-> FALSE, status |-> Some(<< "Unknown" >>)]
       ELSE IF HasAttr(st, "coding")
       THEN IF Val(st).coding = None
            THEN [err |-> TRUE, status |-> None]
            ELSE [err |-> FALSE, status |-> Val(Val(st).coding)[1].code]
       ELSE [err |-> FALSE, status |-> fromText]

\* lines 44-74: the row of one condition
ConditionRow(c) ==
    LET n == ConditionName(c)
        cl == ResolveStatus(c, "clinicalStatus")
        ve == ResolveStatus(c, "verificationStatus")
    IN [err |-> n.err \/ cl.err \/ ve.err,
        condition_name |-> n.name,
        clinical_status |-> cl.status,
        verification_status |-> ve.status]

\* the status strings of the model in Python's str order (code points)
StatusOrder ==
    << << "Active per chart" >>, << "Unknown" >>, << "active" >>, << "resolved" >> >>

StatusRank(st) == CHOOSE i \in 1 .. Len(StatusOrder) : StatusOrder[i] = st

RECURSIVE ConcatRanks(_, _)
ConcatRanks(rows, r) ==
    IF r > Len(StatusOrder) THEN << >>
    ELSE SelectSeq(rows, LAMBDA x : StatusRank(Val(x.clinical_status)) = r)
             \o ConcatRanks(rows, r + 1)

\* line 77: list.sort is stable; comparing a None key raises TypeError
SortByClinicalStatus(rows) ==
    IF Len(rows) >= 2 /\ \E i \in 1 .. Len(rows) : rows[i].clinical_status = None
    THEN [err |-> TRUE, rows |-> << >>]
    ELSE IF Len(rows) < 2 THEN [err |-> FALSE, rows |-> rows]
    ELSE [err |-> FALSE, rows |-> ConcatRanks(rows, 1)]

\* lines 42-77
ConditionRows(conds) ==
    LET rows == [i \in 1 .. Len(conds) |-> ConditionRow(conds[i])] IN
    IF \E i \in 1 .. Len(conds) : rows[i].err
    THEN [err |-> TRUE, rows |-> << >>]
    ELSE SortByClinicalStatus(rows)

\* the Condition resources the table builder is run on
CodeElements ==
    {None} \cup
    {Some(Concept(t, c)) :
        t \in {None, Some(<< "Asthma" >>)},
        c \in {None,
               Some(<< Coding(None, Some(<< "J44" >>)) >>),
               Some(<< Coding(Some(<< "COPD" >>), Some(<< "J44" >>)) >>),
               Some(<< Coding(None, Some(<< "J44" >>)),
                       Coding(Some(<< "COPD" >>), Some(<< "J44" >>)) >>)}}

StatusElements ==
    {None} \cup
    {Some(Concept(t, c)) :
        t \in {None, Some(<< "Active per chart" >>)},
        c \in {None,
               Some(<< Coding(None, Some(<< "active" >>)) >>),
               Some(<< Coding(None, Some(<< "resolved" >>)) >>)}}

VerificationElements ==
    {None,
     Some(Concept(None, Some(<< Coding(None, Some(<< "active" >>)) >>))),
     Some(Concept(Some(<< "Active per chart" >>),
                  Some(<< Coding(None, Some(<< "resolved" >>)) >>)))}

ConditionResources ==
    [code : CodeElements, clinicalStatus : StatusElements,
     verificationStatus : VerificationElements]

\* generate_clinical_details_table is called on a list of conditions
InitTable ==
    /\ Fresh
    /\ server = NoServer
    /\ patient = None
    /\ pc = "table"
    /\ conditions \in SeqsUpTo(ConditionResources, MaxConditions)
    /\ health_conditions_list = None

GenerateClinicalDetailsTable ==
    /\ pc = "table"
    /\ LET r == ConditionRows(conditions) IN
         IF r.err
         THEN /\ pc' = "table_raised"
              /\ health_conditions_list' = health_conditions_list
         ELSE /\ pc' = "table_done"
              /\ health_conditions_list' = Some(r.rows)
    /\ UNCHANGED << fetch_vars, demographics, current_health_conditions, geocoded,
                    env_vars, current_dt, render_vars, failed_step >>

SpecTable == InitTable /\ [][GenerateClinicalDetailsTable]_vars

\* get_patient_demographics is called on a patient
InitDemographics ==
    /\ Fresh
    /\ server = NoServer
    /\ conditions = << >>
    /\ health_conditions_list = None
    /\ pc = "demographics"
    /\ patient \in {Some(p) : p \in Patients}

SpecDemographics == InitDemographics /\ [][Demographics]_vars

(***************************************************************************)
(* Properties of the page callback.                                        *)
(***************************************************************************)
\* the hour a timestamp string stands for
HourOf(k) == k[1] * 10 + k[2]

EndpointIndex(e) == CHOOSE i \in 1 .. Len(TimeOrder) : TimeOrder[i] = e

\* the calls of endpoint e have ended without an error
Finished(e) == ti > EndpointIndex(e)

\* all three endpoints have been merged
Aggregated == ti > Len(TimeOrder)

Paginated == {"history", "forecast"}

\* C1: on a paginated endpoint (history, forecast) no request follows a
\* response without a continuation token, the first request carries no token
\* and every later one the token of the response before it; once the loop has
\* ended, a sequence of n pages of which only the last has no token has cost
\* exactly n requests, and the timestamp of every reading of those pages is
\* a key of the merged series.
C1_PaginationStops ==
    \A e \in Paginated :
        /\ Len(requests[e]) \in {Len(responses[e]), Len(responses[e]) + 1}
        /\ \A i \in 1 .. Len(requests[e]) :
              IF i = 1 THEN requests[e][i] = None
              ELSE /\ responses[e][i - 1] # None
                   /\ requests[e][i] = responses[e][i - 1]
        /\ Finished(e) =>
              /\ Len(requests[e]) = Len(responses[e])
              /\ Len(responses[e]) >= 1
              /\ responses[e][Len(responses[e])] = None
              /\ \A i \in 1 .. (Len(responses[e]) - 1) : responses[e][i] # None
              /\ Keys(emitted[e]) \subseteq Keys(aqi_results)

\* both pagination loops have ended after MaxPages pages each, with readings
C1_Witness ==
    /\ Aggregated
    /\ \A e \in Paginated : Len(requests[e]) = MaxPages /\ Len(emitted[e]) = MaxPages

\* C2: in the figure every timestamp of the observed trace is at or before
\* now, every timestamp of the forecast trace is at or after now, every
\* reading of the merged series is in at least one of the two traces, and a
\* reading at now is in both.
C2_SplitAtNow ==
    figure # None =>
        LET obs == Val(figure).observed
            fut == Val(figure).forecast
            now == HourOf(current_dt)
            In(t, r) == \E i \in 1 .. Len(t) : t[i] = r
        IN /\ \A i \in 1 .. Len(obs) : HourOf(obs[i].k) <= now
           /\ \A i \in 1 .. Len(fut) : HourOf(fut[i].k) >= now
           /\ \A i \in 1 .. Len(aqi_results) :
                 /\ In(obs, aqi_results[i]) \/ In(fut, aqi_results[i])
                 /\ HourOf(aqi_results[i].k) = now =>
                       In(obs, aqi_results[i]) /\ In(fut, aqi_results[i])

\* a figure built from readings before now, at now and after now
C2_Witness ==
    /\ figure # None
    /\ \E i, j, k \in 1 .. Len(aqi_results) :
          /\ HourOf(aqi_results[i].k) < HourOf(current_dt)
          /\ HourOf(aqi_results[j].k) = HourOf(current_dt)
          /\ HourOf(aqi_results[k].k) > HourOf(current_dt)

Ascending(t) == \A i, j \in 1 .. Len(t) : i < j => HourOf(t[i].k) < HourOf(t[j].k)

\* C3: both traces of the figure are in ascending order of timestamp.
C3_TracesSorted ==
    figure # None => Ascending(Val(figure).observed) /\ Ascending(Val(figure).forecast)

NothingPassedOn == figure = None /\ prompt_readings = None /\ outputs = {}

\* C4 as claimed: once an environmental call has failed or a record without
\* 'dateTime' or 'indexes' has come in from any endpoint, the request is
\* aborted and no reading set reaches the figure or the prompt.
C4_AnyIncompleteAborts ==
    (env_error # "" \/ incomplete # {}) => pc = "raised" /\ NothingPassedOn

\* C4 as amended: once an environmental call has failed (transport error,
\* malformed response) or a record without 'dateTime' or 'indexes' has come in
\* from the forecast or the current-conditions endpoint, the request is
\* aborted and no reading set reaches the figure or the prompt, whatever was
\* collected before; an incomplete record of the history endpoint is passed
\* over and the aggregation goes on.
C4_FailureAborts ==
    /\ env_error # "" => pc = "raised" /\ NothingPassedOn
    /\ incomplete \ {"history"} # {} => env_error = "missing_field"
    /\ "history" \in incomplete => skipped >= 1
    /\ env_error = "missing_field" => incomplete \ {"history"} # {}

\* an incomplete current-conditions record has aborted a request that had
\* already collected forecast readings
C4_Witness ==
    /\ env_error = "missing_field"
    /\ incomplete = {"currentConditions"}
    /\ emitted["forecast"] # << >>
    /\ aqi_results # << >>
    /\ pc = "raised"

\* C5: the five outputs are set all together or not at all, and none is set
\* once a step of the callback has failed.
C5_OutputsAllOrNone ==
    /\ outputs \in {{}, OutputIds}
    /\ (failed_step # "" \/ pc \in {"raised", "prevent_update"}) => outputs = {}

\* a request that failed at its last step, after the figure was built
C5_Witness ==
    /\ failed_step = "gemini" \/ failed_step = "prompt"
    /\ figure # None
    /\ outputs = {}

\* the three result sets merged once more into series d, in the order of the
\* endpoint loop
RECURSIVE MergeAll(_, _)
MergeAll(d, items) ==
    IF Len(items) = 0 THEN d
    ELSE MergeAll(DictUpdate(d, Head(items).k, Head(items).v), Tail(items))

ReMerged(d) ==
    MergeAll(MergeAll(MergeAll(d, emitted[TimeOrder[1]]), emitted[TimeOrder[2]]),
             emitted[TimeOrder[3]])

DisjointResults ==
    \A e, f \in Endpoints : e # f => Keys(emitted[e]) \cap Keys(emitted[f]) = {}

\* C10: when the three result sets have pairwise disjoint timestamps, the
\* merged series has as many entries as the three sets together, and merging
\* the three sets into it once more leaves it as it is.
C10_MergeCount ==
    (Aggregated /\ DisjointResults) =>
        /\ Len(aqi_results) =
              Len(emitted["history"]) + Len(emitted["currentConditions"])
                  + Len(emitted["forecast"])
        /\ ReMerged(aqi_results) = aqi_results

\* three non-empty result sets with disjoint timestamps, one of them built
\* from two pages
C10_Witness ==
    /\ Aggregated /\ DisjointResults
    /\ \A e \in Endpoints : emitted[e] # << >>
    /\ \E e \in Paginated : Len(responses[e]) = MaxPages

(***************************************************************************)
(* Properties of get_patient_demographics.                                 *)
(***************************************************************************)
\* the name entry the extractor is to use: the first "official" one, else
\* the first of the list
ClaimedNameEntry(names) ==
    LET official == {i \in 1 .. Len(names) : names[i].use = Some("official")}
    IN IF official = {} THEN names[1]
       ELSE names[CHOOSE i \in official : \A j \in official : i <= j]

\* its full text, else its given names and its family name
ClaimedNameText(entry) ==
    IF entry.text # None THEN Val(entry.text)
    ELSE Join(<< " " >>, IF entry.given = None THEN << >> ELSE Val(entry.given))
             \o << " " >> \o Val(entry.family)

\* C6: the name returned for a non-empty list of name entries is built from
\* the "official" entry if there is one, wherever it stands, and from the
\* first entry otherwise: the entry's text, else given names and family name.
C6_NameSelection ==
    pc = "conditions" =>
        /\ Len(Val(Val(patient).name)) >= 1
        /\ demographics.name =
              StrResult(ClaimedNameText(ClaimedNameEntry(Val(Val(patient).name))))

\* the address string of one address: its text, else its non-empty fields
ClaimedAddress(a) ==
    IF Truthy(a.text) THEN Val(a.text)
    ELSE Join(<< ", " >>,
              (IF a.line = None THEN << >> ELSE Val(a.line))
                  \o FilterNone(<< a.city, a.district, a.state, a.postalCode,
                                   a.country >>))

\* C7: a patient with no address or with several makes the extractor fail
\* and return no address; for a patient with one address it returns the
\* address's text, else its non-empty fields joined with ", " (a patient
\* whose name cannot be built aside).
C7_AddressRule ==
    pc # "demographics" =>
        LET p == Val(patient) IN
        IF p.address = None \/ Len(Val(p.address)) # 1
        THEN pc = "prevent_update" /\ demographics = NoDemographics
        ELSE \/ SelectName(p).err
             \/ /\ pc = "conditions"
                /\ demographics.address = ClaimedAddress(Val(p.address)[1])

(***************************************************************************)
(* Properties of generate_clinical_details_table.                          *)
(***************************************************************************)
\* the name of a condition: its text, else the display of its first coding
\* that has one, else none
ClaimedName(c) ==
    IF c.code = None THEN None
    ELSE IF Val(c.code).text # None THEN Val(c.code).text
    ELSE IF Val(c.code).coding = None THEN None
    ELSE LET cs == Val(Val(c.code).coding)
             shown == {i \in 1 .. Len(cs) : cs[i].display # None}
         IN IF shown = {} THEN None
            ELSE cs[CHOOSE i \in shown : \A j \in shown : i <= j].display

Rows == Val(health_conditions_list)

\* C8: every condition gets the name its text gives, else the display of its
\* first coding that has one; a condition with neither makes the table
\* builder raise instead of yielding a row.
C8_ConditionName ==
    /\ (pc # "table" /\ \E i \in 1 .. Len(conditions) : ClaimedName(conditions[i]) = None)
          => pc = "table_raised"
    /\ pc = "table_done" =>
          \A i \in 1 .. Len(conditions) :
              \E j \in 1 .. Len(Rows) : Rows[j].condition_name = ClaimedName(conditions[i])

\* the status of a status element: its text, else the code of its coding,
\* else "Unknown"
ClaimedStatus(st) ==
    IF st = None THEN Some(<< "Unknown" >>)
    ELSE IF Val(st).text # None THEN Val(st).text
    ELSE IF Val(st).coding # None THEN Val(Val(st).coding)[1].code
    ELSE Some(<< "Unknown" >>)

\* C9: the clinical status and the verification status of every row are the
\* text of the status element when it has one, else its coded value, else
\* "Unknown".
C9_StatusResolution ==
    pc = "table_done" =>
        \A i \in 1 .. Len(conditions) :
            \E j \in 1 .. Len(Rows) :
                /\ Rows[j].clinical_status = ClaimedStatus(conditions[i].clinicalStatus)
                /\ Rows[j].verification_status =
                      ClaimedStatus(conditions[i].verificationStatus)

(***************************************************************************)
(* Order of the environmental calls.                                       *)
(***************************************************************************)
\* in the log of calls every call of endpoint a stands before every call of b
AllBefore(a, b) ==
    \A i, j \in 1 .. Len(calls) : (calls[i] = a /\ calls[j] = b) => i < j

\* the calls of endpoint e made so far have all been answered, the last
\* answer without a continuation token
Completed(e) ==
    /\ Len(requests[e]) >= 1
    /\ Len(responses[e]) = Len(requests[e])
    /\ responses[e][Len(responses[e])] = None

\* the endpoints are called one after the other in the order first, second,
\* third: a call of a later one is made only when the earlier one is completed
CalledInOrder(first, second, third) ==
    /\ AllBefore(first, second) /\ AllBefore(second, third) /\ AllBefore(first, third)
    /\ requests[second] # << >> => Completed(first)
    /\ requests[third] # << >> => Completed(first) /\ Completed(second)

\* C11 as claimed: the endpoints are called strictly one after the other in
\* the order history, current, forecast.
C11_HistoryCurrentForecast == CalledInOrder("history", "currentConditions", "forecast")

\* C11 as amended: the endpoints are called strictly one after the other in
\* the order forecast, current, history: no current call is made before the
\* last forecast page has been received, and no history call before the
\* current call has returned.
C11_ForecastCurrentHistory == CalledInOrder("forecast", "currentConditions", "history")

\* all three endpoints were called, the paginated ones MaxPages times each
C11_Witness ==
    /\ Aggregated
    /\ Len(calls) = 2 * MaxPages + 1
    /\ calls[1] = "forecast"
    /\ calls[Len(calls)] = "history"
(***************************************************************************)
(* Which reading wins when endpoints report the same timestamp.            *)
(***************************************************************************)
\* the value a result set holds for timestamp key
ValueIn(d, key) == d[CHOOSE i \in 1 .. Len(d) : d[i].k = key].v

\* the value of the first of the endpoints of seq that reports timestamp key
RECURSIVE FirstReporting(_, _)
FirstReporting(seq, key) ==
    IF key \in Keys(emitted[Head(seq)]) THEN ValueIn(emitted[Head(seq)], key)
    ELSE FirstReporting(Tail(seq), key)

\* every timestamp of the merged series is one some endpoint reported, and it
\* holds the value of the first endpoint of `priority` that reported it
WinnerIs(priority) ==
    Aggregated =>
        \A i \in 1 .. Len(aqi_results) :
            /\ \E e \in Endpoints : aqi_results[i].k \in Keys(emitted[e])
            /\ aqi_results[i].v = FirstReporting(priority, aqi_results[i].k)

\* C12 as claimed: for a timestamp reported by several endpoints the merged
\* series holds the forecast value before the current one, and the current
\* value before the history one.
C12_ForecastWins == WinnerIs(<< "forecast", "currentConditions", "history" >>)

\* C12 as amended: for a timestamp reported by several endpoints the merged
\* series holds the value of the call made last in the order forecast,
\* current, history: a history reading replaces a current or forecast one,
\* and a current reading replaces a forecast one.
C12_HistoryWins == WinnerIs(<< "history", "currentConditions", "forecast" >>)

Reports(e, key, value) ==
    key \in Keys(emitted[e]) /\ ValueIn(emitted[e], key) = value

\* the timestamp of the current reading is reported by forecast with another
\* value and by history with another value
C12_Witness ==
    /\ Aggregated
    /\ \E key \in Keys(aqi_results) : \E v, w \in AqiValues :
          /\ v # w
          /\ Reports("forecast", key, v)
          /\ Reports("currentConditions", key, w)
    /\ \E key \in Keys(aqi_results) : \E v, w \in AqiValues :
          /\ v # w
          /\ Reports("currentConditions", key, v)
          /\ Reports("history", key, w)

(***************************************************************************)
(* The two reads of the health-record server.                              *)
(***************************************************************************)
Joined == pc \notin {"submit", "submit_conditions", "result"}

\* C13: no result is awaited before both reads are submitted; no later step
\* begins before both reads have ended; a read that raised aborts the
\* request, and otherwise the patient and the conditions handed to the later
\* steps are what the server holds, in whatever order the two reads ended.
C13_ReadsJoined ==
    /\ pc = "result" => patient_future # "idle" /\ conditions_future # "idle"
    /\ Joined =>
          /\ patient_future \in {"done", "raised"}
          /\ conditions_future \in {"done", "raised"}
          /\ Len(read_order) = 2
          /\ IF server.patient = None \/ server.conditions = None
             THEN pc = "raised" /\ failed_step = "fetch"
             ELSE patient = server.patient /\ conditions = Val(server.conditions)

\* the condition search, submitted second, ended first, and both results
\* went on to the later steps
C13_Witness ==
    /\ pc = "demographics"
    /\ read_order = << "conditions", "patient" >>
    /\ patient # None

====
